---- MODULE Spec2Model ----
(***************************************************************************)
(* GeoGebra Omni: the chat-to-command bridge of src/index.tsx (the second, *)
(* CAS-aware variant of the file, lines 298-611).                          *)
(*                                                                         *)
(* App owns appType, isPanelOpen, langCode and the engine handle           *)
(* (window.ggbApplet / ggbApiRef.current).  GeminiPanel owns messages,     *)
(* input and loading; it is mounted only while isPanelOpen, so closing the *)
(* panel destroys that state while the asynchronous handleChatSend of the  *)
(* destroyed instance keeps running.                                       *)
(*                                                                         *)
(* A text is a sequence of characters/tokens; the empty sequence is the    *)
(* empty string (falsy in the source, like undefined).                     *)
(***************************************************************************)
EXTENDS Integers, Sequences, FiniteSets, TLC

VARIABLES appType, isPanelOpen, langCode, ggbApplet,
          messages, input, loading,
          pc, pending, requests, calls, lastOp, handled, prompt

vars == <<appType, isPanelOpen, langCode, ggbApplet,
          messages, input, loading, pc, pending, requests, calls, lastOp,
          handled, prompt>>

appVars == <<appType, isPanelOpen, langCode>>
panelVars == <<messages, input, loading>>

-----------------------------------------------------------------------------
(* Bounds of the model *)

\* transcript entries a mounted panel may hold before sends stop being tried
MaxMessages == 4
\* model requests that may be outstanding at once
MaxInFlight == 2

-----------------------------------------------------------------------------
(* Tables of the source *)

LANGUAGES == [pt |-> <<"Portugues">>, en |-> <<"English">>]

LangCodes == DOMAIN LANGUAGES

AppTypes == {"graphing", "cas"}

PERSPECTIVES == [graphing |-> "1", geometry |-> "2", 3d |-> "5", cas |-> "4"]

InitialAppType == "cas"

InitialLangCode == "pt"

ExecTool == "executeGGBCommands"

ErrorText == <<"Erro ao comunicar com o motor matematico do GeoGebra.">>

FallbackExplanation == <<"Os comandos foram enviados para a vista CAS.">>

NoObjectsMarker == <<"Nenhum">>

-----------------------------------------------------------------------------
(* Turns of the transcript *)

UserTurn(text) ==
    [role |-> "user", text |-> text, isAction |-> FALSE, results |-> <<>>]

TextTurn(text) ==
    [role |-> "ai", text |-> text, isAction |-> FALSE, results |-> <<>>]

ErrorTurn == TextTurn(ErrorText)

\* explanation || fallback, followed by the CAS results read back
ActionTurn(explanation, casResults) ==
    [role |-> "ai",
     text |-> IF explanation # <<>> THEN explanation ELSE FallbackExplanation,
     isAction |-> TRUE,
     results |-> casResults]

-----------------------------------------------------------------------------
(* String.prototype.trim on a sequence of characters *)

RECURSIVE TrimStart(_)
TrimStart(s) ==
    IF s # <<>> /\ Head(s) = " " THEN TrimStart(Tail(s)) ELSE s

RECURSIVE TrimEnd(_)
TrimEnd(s) ==
    IF s # <<>> /\ s[Len(s)] = " " THEN TrimEnd(SubSeq(s, 1, Len(s) - 1)) ELSE s

Trim(s) == TrimEnd(TrimStart(s))

\* what the user may have typed in the input box
Inputs == {<<>>, <<" ">>, <<" ", "a">>}

-----------------------------------------------------------------------------
(* The external engine adapter (window.ggbApplet), as far as the bridge    *)
(* uses it.  A command is a sequence of tokens.  The engine is a closed    *)
(* collaborator: what it answers is represented by commands it accepts, a  *)
(* command for which it returns the failure value, a command it throws on, *)
(* a name whose value reads "name = value" and a name with no value.       *)

NoEngine == [loaded |-> FALSE]

Engine(perspective) == [loaded |-> TRUE, perspective |-> perspective]

Call(op, arg) == [op |-> op, arg |-> arg]

\* cmd.includes(':=')
IncludesAssign(cmd) == \E i \in DOMAIN cmd : cmd[i] = ":="

\* cmd.split(':=')[0].trim()
VarName(cmd) ==
    LET first == CHOOSE i \in DOMAIN cmd :
                     cmd[i] = ":=" /\ \A j \in 1..(i - 1) : cmd[j] # ":="
    IN Trim(SubSeq(cmd, 1, first - 1))

\* ggb.evalCommand(cmd) throws
EvalThrows(cmd) == \E i \in DOMAIN cmd : cmd[i] = "boom"

\* ggb.evalCommand(cmd) returns false (the bridge does not read the result)
EvalFails(cmd) == \E i \in DOMAIN cmd : cmd[i] = "?"

\* ggb.getValueString(name): "a = v" for the name a, "" for any other
GetValueString(name) ==
    IF name = <<"a">> THEN <<"a", "=", "v">> ELSE <<>>

\* val.includes('=')
IncludesEquals(val) == \E i \in DOMAIN val : val[i] = "="

\* what ggb.getAllObjectNames() may return
ObjectNameLists == {<<>>, <<"a", "b">>}

\* names.map(n => `${n}: ${ggb.getValueString(n)}`)
RECURSIVE ObjectLines(_)
ObjectLines(names) ==
    IF names = <<>> THEN <<>>
    ELSE << <<Head(names), ": ">> \o GetValueString(<<Head(names)>>) >>
         \o ObjectLines(Tail(names))

\* Array.prototype.join('\n')
RECURSIVE Join(_)
Join(lines) ==
    IF lines = <<>> THEN <<>>
    ELSE IF Len(lines) = 1 THEN Head(lines)
    ELSE Head(lines) \o <<"\n">> \o Join(Tail(lines))

\* lines 365-366: const objects = ggb ? ... : "Nenhum"
Snapshot(ggb, names) ==
    IF ggb THEN Join(ObjectLines(names)) ELSE NoObjectsMarker

-----------------------------------------------------------------------------
(* Model responses *)

FunctionCall(name, isArray, commands, explanation) ==
    [name |-> name, isArray |-> isArray, commands |-> commands,
     explanation |-> explanation]

Response(text, functionCalls) == [text |-> text, functionCalls |-> functionCalls]

NoResponse == Response(<<>>, <<>>)

CmdA == <<"a", ":=", "1">>

CmdB == <<"b", ":=", "a", "+", "1">>

CmdBad == <<" ", "c", " ", ":=", "?">>

CmdSolve == <<"Solve[x]">>

CmdBoom == <<"boom">>

\* the invocations a response may carry: a well-formed batch, a batch whose
\* first command the engine refuses, a single command, an empty list, a
\* commands field that is no array, a batch with a command the engine throws
\* on, and a call of a tool the bridge does not know
FcBatch == FunctionCall(ExecTool, TRUE, <<CmdA, CmdB>>, <<"e">>)

FcFails == FunctionCall(ExecTool, TRUE, <<CmdBad, CmdA>>, <<>>)

FcSolve == FunctionCall(ExecTool, TRUE, <<CmdSolve>>, <<>>)

FcEmpty == FunctionCall(ExecTool, TRUE, <<>>, <<"e">>)

FcNotArray == FunctionCall(ExecTool, FALSE, <<>>, <<"e">>)

FcThrows == FunctionCall(ExecTool, TRUE, <<CmdA, CmdBoom, CmdB>>, <<"e">>)

FcOther == FunctionCall("otherTool", TRUE, <<CmdA>>, <<>>)

Invocations ==
    {FcBatch, FcFails, FcSolve, FcEmpty, FcNotArray, FcThrows, FcOther}

\* response.functionCalls: none, each invocation alone, and pairs that put a
\* well-formed batch before or after the other shapes
FunctionCallLists ==
    {<<>>} \cup {<<fc>> : fc \in Invocations}
           \cup {<<FcNotArray, FcBatch>>, <<FcBatch, FcSolve>>, <<FcEmpty, FcSolve>>,
                 <<FcBatch, FcThrows>>, <<FcThrows, FcBatch>>}

\* the call lists that are also tried together with prose text
TextedCallLists ==
    {<<>>, <<FcBatch>>, <<FcEmpty>>, <<FcThrows>>, <<FcNotArray, FcBatch>>}

Responses ==
    {Response(<<>>, fcs) : fcs \in FunctionCallLists}
        \cup {Response(<<"t">>, fcs) : fcs \in TextedCallLists}

-----------------------------------------------------------------------------
(* The dispatch loop of handleChatSend, lines 390-429.  A dispatch state   *)
(* carries the engine, the adapter calls made so far, the Turns passed to  *)
(* setMessages so far, the casResults of the current invocation and        *)
(* whether an exception is propagating.                                    *)

DispatchState(engine) ==
    [engine |-> engine, calls |-> <<>>, turns |-> <<>>, cas |-> <<>>,
     threw |-> FALSE]

\* lines 405-414: read the bound value back when in CAS mode
ReadBack(st, cmd, mode) ==
    IF mode = "cas" /\ IncludesAssign(cmd)
    THEN LET varName == VarName(cmd)
             val == GetValueString(varName)
         IN [st EXCEPT !.calls = Append(@, Call("getValueString", varName)),
                       !.cas = IF val # <<>> /\ IncludesEquals(val)
                               THEN Append(@, val) ELSE @]
    ELSE st

\* the loop walking the list from its end
RECURSIVE RunCommandsReversed(_, _, _)
RunCommandsReversed(st, commands, mode) ==
    IF commands = <<>> THEN st
    ELSE LET cmd == commands[Len(commands)]
             called == [st EXCEPT !.calls = Append(@, Call("evalCommand", cmd))]
         IN IF EvalThrows(cmd)
            THEN [called EXCEPT !.threw = TRUE]
            ELSE RunCommandsReversed(ReadBack(called, cmd, mode),
                                     SubSeq(commands, 1, Len(commands) - 1), mode)

\* the loop breaking off at the first command the engine refuses
RECURSIVE RunCommandsUntilFailure(_, _, _)
RunCommandsUntilFailure(st, commands, mode) ==
    IF commands = <<>> THEN st
    ELSE LET cmd == Head(commands)
             called == [st EXCEPT !.calls = Append(@, Call("evalCommand", cmd))]
         IN IF EvalThrows(cmd)
            THEN [called EXCEPT !.threw = TRUE]
            ELSE IF EvalFails(cmd) THEN called
            ELSE RunCommandsUntilFailure(ReadBack(called, cmd, mode),
                                         Tail(commands), mode)

\* lines 401-415: for (const cmd of commands)
RECURSIVE RunCommands(_, _, _)
RunCommands(st, commands, mode) ==
    IF commands = <<>> THEN st
    ELSE LET cmd == Head(commands)
             called == [st EXCEPT !.calls = Append(@, Call("evalCommand", cmd))]
         IN IF EvalThrows(cmd)
            THEN [called EXCEPT !.threw = TRUE]
            ELSE RunCommands(ReadBack(called, cmd, mode), Tail(commands), mode)

\* one functionCall, a commands field that is no array being fatal
RunInvocationStrict(st, fc, ggb, mode) ==
    IF fc.name = ExecTool /\ ggb
    THEN IF fc.isArray
         THEN LET forced == [st EXCEPT
                      !.calls = Append(@, Call("setPerspective", <<PERSPECTIVES[mode]>>)),
                      !.engine.perspective = PERSPECTIVES[mode],
                      !.cas = <<>>]
                  ran == RunCommands(forced, fc.commands, mode)
              IN IF ran.threw THEN ran
                 ELSE [ran EXCEPT !.turns = Append(@, ActionTurn(fc.explanation, ran.cas))]
         ELSE [st EXCEPT !.threw = TRUE]
    ELSE st

\* one functionCall, its action record appended before its commands run
RunInvocationRecordFirst(st, fc, ggb, mode) ==
    IF fc.name = ExecTool /\ ggb
    THEN IF fc.isArray
         THEN LET forced == [st EXCEPT
                      !.calls = Append(@, Call("setPerspective", <<PERSPECTIVES[mode]>>)),
                      !.engine.perspective = PERSPECTIVES[mode],
                      !.cas = <<>>,
                      !.turns = Append(@, ActionTurn(fc.explanation, <<>>))]
              IN RunCommands(forced, fc.commands, mode)
         ELSE st
    ELSE st

\* one functionCall, the engine handle used without testing it
RunInvocationNeedsEngine(st, fc, ggb, mode) ==
    IF fc.name = ExecTool
    THEN IF ~ggb THEN [st EXCEPT !.threw = TRUE]
         ELSE IF fc.isArray
         THEN LET forced == [st EXCEPT
                      !.calls = Append(@, Call("setPerspective", <<PERSPECTIVES[mode]>>)),
                      !.engine.perspective = PERSPECTIVES[mode],
                      !.cas = <<>>]
                  ran == RunCommands(forced, fc.commands, mode)
              IN IF ran.threw THEN ran
                 ELSE [ran EXCEPT !.turns = Append(@, ActionTurn(fc.explanation, ran.cas))]
         ELSE st
    ELSE st

\* lines 392-427: one functionCall
RunInvocation(st, fc, ggb, mode) ==
    IF fc.name = ExecTool /\ ggb
    THEN IF fc.isArray
         THEN LET forced == [st EXCEPT
                      !.calls = Append(@, Call("setPerspective", <<PERSPECTIVES[mode]>>)),
                      !.engine.perspective = PERSPECTIVES[mode],
                      !.cas = <<>>]
                  ran == RunCommands(forced, fc.commands, mode)
              IN IF ran.threw THEN ran
                 ELSE [ran EXCEPT !.turns = Append(@, ActionTurn(fc.explanation, ran.cas))]
         ELSE st
    ELSE st

\* lines 390-429: for (const fc of response.functionCalls)
RECURSIVE RunInvocations(_, _, _, _)
RunInvocations(st, functionCalls, ggb, mode) ==
    IF functionCalls = <<>> \/ st.threw THEN st
    ELSE RunInvocations(RunInvocation(st, Head(functionCalls), ggb, mode),
                        Tail(functionCalls), ggb, mode)

\* the prose text dropped
DropText(st, text) == st

\* the prose text appended as an action record
AppendTextAsAction(st, text) ==
    IF ~st.threw /\ text # <<>>
    THEN [st EXCEPT !.turns = Append(@, ActionTurn(text, <<>>))]
    ELSE st

\* lines 431-433: if (response.text) setMessages(... response.text)
AppendText(st, text) ==
    IF ~st.threw /\ text # <<>>
    THEN [st EXCEPT !.turns = Append(@, TextTurn(text))]
    ELSE st

\* lines 434-437: catch (e) { setMessages(... error) }
CatchError(st) ==
    IF st.threw THEN [st EXCEPT !.turns = Append(@, ErrorTurn)] ELSE st

\* lines 390-437: what the continuation does with a resolved response
HandleResponse(engine, response, ggb, mode) ==
    CatchError(AppendText(
        RunInvocations(DispatchState(engine), response.functionCalls, ggb, mode),
        response.text))

-----------------------------------------------------------------------------
(* State *)

NoPending == [userText |-> <<>>, langName |-> <<>>, appType |-> "none"]

\* line 370: the contents sent to the model
Prompt(langName, mode, objects, userText) ==
    [langName |-> langName, mode |-> mode, objects |-> objects,
     userText |-> userText]

\* no model call was issued in the last step
NoPrompt == [mode |-> "none"]

\* an outstanding generateContent call: what the continuation of
\* handleChatSend reads after the await (the engine handle and the mode it
\* captured) and whether the GeminiPanel that started it is still mounted
Request(mode, ggb) ==
    [mode |-> mode, ggb |-> ggb, mounted |-> TRUE, status |-> "pending",
     response |-> NoResponse, error |-> "none"]

\* no continuation ran in the last step
NoRequest == [status |-> "none"]

RemoveAt(q, i) == SubSeq(q, 1, i - 1) \o SubSeq(q, i + 1, Len(q))

\* lines 341-343 and 493-497: useState initial values
Init ==
    /\ appType = InitialAppType
    /\ isPanelOpen = TRUE
    /\ langCode = InitialLangCode
    /\ ggbApplet = NoEngine
    /\ messages = <<>>
    /\ input = <<>>
    /\ loading = FALSE
    /\ pc = "ready"
    /\ pending = NoPending
    /\ requests = <<>>
    /\ calls = <<>>
    /\ lastOp = "init"
    /\ prompt = NoPrompt
    /\ handled = NoRequest

-----------------------------------------------------------------------------
(* App *)

\* lines 513-517: the applet finished loading; the callback was created by
\* the first render, so it sees the initial appType and langCode
appletOnLoad ==
    /\ pc = "ready"
    /\ ~ggbApplet.loaded
    /\ ggbApplet' = Engine(PERSPECTIVES[InitialAppType])
    /\ calls' = <<Call("setPerspective", <<PERSPECTIVES[InitialAppType]>>)>>
    /\ lastOp' = "appletOnLoad"
    /\ prompt' = NoPrompt
    /\ handled' = NoRequest
    /\ UNCHANGED <<appVars, panelVars, pc, pending, requests>>

\* lines 586 and 525-529: a mode button, then the effect on [appType]
setAppType(type) ==
    /\ pc = "ready"
    /\ type # appType
    /\ appType' = type
    /\ IF ggbApplet.loaded
       THEN /\ ggbApplet' = [ggbApplet EXCEPT !.perspective = PERSPECTIVES[type]]
            /\ calls' = <<Call("setPerspective", <<PERSPECTIVES[type]>>)>>
       ELSE /\ UNCHANGED ggbApplet
            /\ calls' = <<>>
    /\ lastOp' = "setAppType"
    /\ prompt' = NoPrompt
    /\ handled' = NoRequest
    /\ UNCHANGED <<isPanelOpen, langCode, panelVars, pc, pending, requests>>

\* lines 576 and 539-543: a language button, then the effect on [langCode]
setLangCode(code) ==
    /\ pc = "ready"
    /\ code # langCode
    /\ langCode' = code
    /\ IF ggbApplet.loaded
       THEN calls' = <<Call("setLanguage", <<code>>)>>
       ELSE calls' = <<>>
    /\ lastOp' = "setLangCode"
    /\ prompt' = NoPrompt
    /\ handled' = NoRequest
    /\ UNCHANGED <<appType, isPanelOpen, ggbApplet, panelVars, pc, pending, requests>>

\* what unmounting GeminiPanel does to the turns it started: their
\* continuations keep running, their state setters no longer have a target
Unmount(reqs) == [i \in DOMAIN reqs |-> [reqs[i] EXCEPT !.mounted = FALSE]]

\* lines 592, 600 and 531-537: the panel button.  Closing unmounts
\* GeminiPanel (its state is destroyed); opening mounts a fresh one.
setIsPanelOpen ==
    /\ pc = "ready"
    /\ isPanelOpen' = ~isPanelOpen
    /\ messages' = <<>>
    /\ input' = <<>>
    /\ loading' = FALSE
    /\ requests' = IF isPanelOpen THEN Unmount(requests) ELSE requests
    /\ calls' = IF ggbApplet.loaded
                THEN <<Call("setSize", <<IF isPanelOpen THEN "0" ELSE "384">>)>>
                ELSE <<>>
    /\ lastOp' = "setIsPanelOpen"
    /\ prompt' = NoPrompt
    /\ handled' = NoRequest
    /\ UNCHANGED <<appType, langCode, ggbApplet, pc, pending>>

-----------------------------------------------------------------------------
(* GeminiPanel *)

\* line 478: onChange={(e) => setInput(e.target.value)}
setInput(value) ==
    /\ pc = "ready"
    /\ isPanelOpen
    /\ value # input
    /\ input' = value
    /\ calls' = <<>>
    /\ lastOp' = "setInput"
    /\ prompt' = NoPrompt
    /\ handled' = NoRequest
    /\ UNCHANGED <<appVars, ggbApplet, messages, loading, pc, pending, requests>>

\* the gate without its loading half
RejectsEmptyOnly(text, busy) == Trim(text) = <<>>

\* line 353: if (!input.trim() || loading) return;
Rejects(text, busy) == Trim(text) = <<>> \/ busy

\* the user Turn built from the trimmed text
PushTrimmedUserTurn(prev, userText) == Append(prev, UserTurn(Trim(userText)))

\* line 358: setMessages(prev => [...prev, { role: 'user', text: userText }])
PushUserTurn(prev, userText) == Append(prev, UserTurn(userText))

\* lines 352-359: Enter or the send button, up to setLoading(true)
handleChatSend ==
    /\ pc = "ready"
    /\ isPanelOpen
    /\ lastOp' = "handleChatSend"
    /\ prompt' = NoPrompt
    /\ handled' = NoRequest
    /\ calls' = <<>>
    /\ IF Rejects(input, loading)
       THEN UNCHANGED <<appVars, ggbApplet, panelVars, pc, pending, requests>>
       ELSE /\ Len(messages) + 2 <= MaxMessages
            /\ Len(requests) < MaxInFlight
            /\ pending' = [userText |-> input, langName |-> LANGUAGES[langCode],
                           appType |-> appType]
            /\ input' = <<>>
            /\ messages' = PushUserTurn(messages, input)
            /\ loading' = TRUE
            /\ pc' = "accepted"
            /\ UNCHANGED <<appVars, ggbApplet, requests>>

\* setMessages(prev => [...prev, turn]) of an instance: dropped once unmounted
SetMessages(prev, turns, mounted) == IF mounted THEN prev \o turns ELSE prev

\* a handler without its finally clause
LeaveLoading(busy, mounted) == busy

\* finally { setLoading(false) } of an instance: dropped once unmounted
SetLoadingFalse(busy, mounted) == IF mounted THEN FALSE ELSE busy

\* what may go wrong between try { and the await: the client constructor
\* throws, or the engine throws while it is being snapshotted
SetupFailures == {"none", "client", "snapshot"}

\* lines 361-368, 434-439: the rest of the synchronous part of
\* handleChatSend; names is what the engine lists when it is snapshotted
issueRequest(failure, names) ==
    /\ pc = "accepted"
    /\ failure = "snapshot" => ggbApplet.loaded
    /\ ~ggbApplet.loaded \/ failure # "none" => names = <<>>
    /\ pc' = "ready"
    /\ pending' = NoPending
    /\ lastOp' = "issueRequest"
    /\ handled' = NoRequest
    /\ calls' = IF failure # "client" /\ ggbApplet.loaded
                THEN <<Call("getAllObjectNames", <<>>)>>
                     \o [k \in DOMAIN names |-> Call("getValueString", <<names[k]>>)]
                ELSE <<>>
    /\ IF failure = "none"
       THEN /\ requests' = Append(requests, Request(pending.appType, ggbApplet.loaded))
            /\ prompt' = Prompt(pending.langName, pending.appType,
                                Snapshot(ggbApplet.loaded, names), pending.userText)
            /\ UNCHANGED <<messages, loading>>
       ELSE /\ messages' = SetMessages(messages, <<ErrorTurn>>, TRUE)
            /\ loading' = SetLoadingFalse(loading, TRUE)
            /\ prompt' = NoPrompt
            /\ UNCHANGED requests
    /\ UNCHANGED <<appVars, ggbApplet, input>>

-----------------------------------------------------------------------------
(* The remote model service settles a call and handleChatSend resumes *)

\* the catch clause showing the error it caught
OutcomeShowingError(engine, req) ==
    IF req.status = "rejected"
    THEN [DispatchState(engine) EXCEPT !.turns = <<TextTurn(<<req.error>>)>>,
                                       !.threw = TRUE]
    ELSE HandleResponse(engine, req.response, req.ggb, req.mode)

\* the Turns the continuation of request req passes to setMessages, and what
\* it does to the engine: a rejected call goes straight to catch
Outcome(engine, req) ==
    IF req.status = "rejected"
    THEN [DispatchState(engine) EXCEPT !.turns = <<ErrorTurn>>, !.threw = TRUE]
    ELSE HandleResponse(engine, req.response, req.ggb, req.mode)

\* lines 390-439: handleChatSend resumes after the await with request i
\* settled as req
resumeChatSend(i, req) ==
    /\ pc = "ready"
    /\ handled' = req
    /\ requests' = RemoveAt(requests, i)
    /\ prompt' = NoPrompt
    /\ \E out \in {Outcome(ggbApplet, req)} :
          /\ req.mounted => Len(messages) + Len(out.turns) <= MaxMessages
          /\ ggbApplet' = out.engine
          /\ calls' = out.calls
          /\ messages' = SetMessages(messages, out.turns, req.mounted)
          /\ loading' = SetLoadingFalse(loading, req.mounted)
    /\ UNCHANGED <<appVars, input, pc, pending>>

\* line 368: the promise of generateContent is fulfilled with a response
generateContentResolved(i, response) ==
    /\ i \in DOMAIN requests
    /\ lastOp' = "generateContentResolved"
    /\ resumeChatSend(i, [requests[i] EXCEPT !.status = "resolved",
                                             !.response = response])

\* why a model call may be rejected
Errors == {"transport", "auth"}

\* line 368: the promise of generateContent is rejected
generateContentRejected(i, error) ==
    /\ i \in DOMAIN requests
    /\ lastOp' = "generateContentRejected"
    /\ resumeChatSend(i, [requests[i] EXCEPT !.status = "rejected",
                                             !.error = error])

-----------------------------------------------------------------------------

Next ==
    \/ appletOnLoad
    \/ \E type \in AppTypes : setAppType(type)
    \/ \E code \in LangCodes : setLangCode(code)
    \/ setIsPanelOpen
    \/ \E value \in Inputs : setInput(value)
    \/ handleChatSend
    \/ \E failure \in SetupFailures, names \in ObjectNameLists :
          issueRequest(failure, names)
    \/ \E i \in 1..MaxInFlight, response \in Responses :
          generateContentResolved(i, response)
    \/ \E i \in 1..MaxInFlight, error \in Errors : generateContentRejected(i, error)

Spec == Init /\ [][Next]_vars

\* The synchronous part of handleChatSend runs to the await, and (the
\* assumption of the liveness claims) every model call is eventually
\* fulfilled or rejected, upon which its continuation runs.
Fairness ==
    /\ WF_vars(\E failure \in SetupFailures, names \in ObjectNameLists :
                  issueRequest(failure, names))
    /\ \A i \in 1..MaxInFlight :
          WF_vars((\E error \in Errors : generateContentRejected(i, error))
                  \/ \E response \in Responses : generateContentResolved(i, response))

FairSpec == Spec /\ Fairness

-----------------------------------------------------------------------------
(* Properties *)

Last(q) == q[Len(q)]

\* the request outstanding for the mounted panel, if any
MountedRequests == {i \in DOMAIN requests : requests[i].mounted}

\* the outstanding requests whose continuation holds the engine handle
DispatchingRequests == {i \in DOMAIN requests : requests[i].ggb}

\* a continuation of handleChatSend ran in the step
Resumed == handled' # NoRequest

\* C1: at most one outstanding model request can still dispatch to the
\* engine, whatever sends, settlements and presentation events happened.
C1_AtMostOneTurnInFlight == Cardinality(DispatchingRequests) <= 1

\* C2: a send that is rejected (blank input, or a turn in flight) changes
\* neither the transcript, the loading state, the input, the engine nor the
\* outstanding requests and issues no model call; and the continuation of
\* the turn in flight neither issues a model call nor appends a user Turn
\* (the rejected text is not processed later).
C2_RejectedSendHasNoEffect ==
    /\ [][(lastOp' = "handleChatSend" /\ (Trim(input) = <<>> \/ loading))
            => /\ UNCHANGED <<messages, loading, input, ggbApplet, requests,
                              pc, pending, appVars>>
               /\ calls' = <<>>
               /\ prompt' = NoPrompt]_vars
    /\ [][Resumed
            => /\ prompt' = NoPrompt
               /\ Len(requests') = Len(requests) - 1
               /\ input' = input
               /\ \A k \in DOMAIN messages' :
                     k > Len(messages) => messages'[k].role # "user"]_vars

\* a send was rejected because a turn is in flight; the text is still in
\* the input box
C2_Witness ==
    /\ lastOp = "handleChatSend"
    /\ pc = "ready"
    /\ loading
    /\ Trim(input) # <<>>
    /\ MountedRequests # {}

\* C3: a send of non-blank input while not loading appends exactly one user
\* Turn with the text as typed and sets loading, and issues no model call
\* and touches no engine in that step; the engine snapshot and the model
\* call come in the following step, when the user Turn is already the last
\* Turn of the transcript and loading is set.
C3_UserTurnBeforeCall ==
    /\ [][(lastOp' = "handleChatSend" /\ Trim(input) # <<>> /\ ~loading)
            => /\ messages' = Append(messages, UserTurn(input))
               /\ loading'
               /\ requests' = requests
               /\ prompt' = NoPrompt
               /\ calls' = <<>>
               /\ ggbApplet' = ggbApplet]_vars
    /\ [][(prompt' # NoPrompt \/ lastOp' = "issueRequest")
            => /\ loading
               /\ messages # <<>>
               /\ Last(messages) = UserTurn(pending.userText)
               /\ prompt' # NoPrompt =>
                     /\ prompt'.userText = pending.userText
                     /\ Len(requests') = Len(requests) + 1
                     /\ messages' = messages]_vars

\* the user Turn is in the transcript, loading is set, the call is not out
C3_Witness ==
    /\ lastOp = "handleChatSend"
    /\ pc = "accepted"
    /\ loading
    /\ messages = <<UserTurn(<<" ", "a">>)>>
    /\ requests = <<>>

\* C4: whenever the bridge is loading it eventually is not: every accepted
\* turn returns the bridge to Idle, whether the model call is fulfilled or
\* rejected and whether or not the snapshot or the dispatch throws, given
\* that every model call is eventually settled; and the bridge is loading
\* only while its send is still running or its model call is outstanding.
C4_ReturnsToIdle ==
    /\ loading ~> ~loading
    /\ [](loading => pc = "accepted" \/ MountedRequests # {})

\* a turn whose dispatch threw has completed and the bridge is idle
C4_Witness ==
    /\ handled # NoRequest
    /\ handled.mounted
    /\ handled.ggb
    /\ handled.status = "resolved"
    /\ handled.response.functionCalls = <<FcThrows>>
    /\ isPanelOpen
    /\ ~loading

-----------------------------------------------------------------------------
(* What a response asks for *)

\* the Turns the step appended to the transcript
Appended == SubSeq(messages', Len(messages) + 1, Len(messages'))

IsActionTurn(turn) == turn.isAction

ActionCount(turns) == Len(SelectSeq(turns, IsActionTurn))

IsEvalCall(call) == call.op = "evalCommand"

\* the commands evalCommand received, in the order it received them
EvalCommands(cs) ==
    LET evals == SelectSeq(cs, IsEvalCall)
    IN [k \in DOMAIN evals |-> evals[k].arg]

IsListInvocation(fc) == fc.name = ExecTool /\ fc.isArray

\* the invocations of the command tool that carry a list of commands
ListInvocations(response) == SelectSeq(response.functionCalls, IsListInvocation)

RECURSIVE Concat(_)
Concat(fcs) == IF fcs = <<>> THEN <<>> ELSE Head(fcs).commands \o Concat(Tail(fcs))

\* a command sequence cut after the first command the engine throws on
RECURSIVE UpToThrow(_)
UpToThrow(cmds) ==
    IF cmds = <<>> THEN <<>>
    ELSE IF EvalThrows(Head(cmds)) THEN <<Head(cmds)>>
    ELSE <<Head(cmds)>> \o UpToThrow(Tail(cmds))

Throws(fc) == \E k \in DOMAIN fc.commands : EvalThrows(fc.commands[k])

\* the invocations before the first one the engine throws in
RECURSIVE CompletedCount(_)
CompletedCount(fcs) ==
    IF fcs = <<>> \/ Throws(Head(fcs)) THEN 0 ELSE 1 + CompletedCount(Tail(fcs))

\* a turn leaves something in the transcript
Answers(req) ==
    \/ req.status = "rejected"
    \/ req.response.text # <<>>
    \/ req.ggb /\ ListInvocations(req.response) # <<>>

\* the continuation of a turn of the mounted panel ran in the last step
CompletedMounted == handled # NoRequest /\ handled.mounted

\* C5 as stated: once an accepted turn has completed, an assistant entry
\* follows its user Turn, whatever the response was.
C5_EveryTurnAnswered ==
    CompletedMounted => messages # <<>> /\ Last(messages).role = "ai"

\* C5 as amended: once an accepted turn has completed, an assistant entry
\* follows its user Turn exactly when the call was rejected, or the response
\* had text, or the engine was there at send time and the response had an
\* invocation with a command list; otherwise the user Turn stays the last.
C5_AnsweredUnlessSilent ==
    CompletedMounted =>
        /\ messages # <<>>
        /\ Last(messages).role = "ai" <=> Answers(handled)
        /\ Last(messages).role = "user" <=> ~Answers(handled)

\* a turn answered by an action record alone
C5_Witness ==
    /\ CompletedMounted
    /\ handled.status = "resolved"
    /\ handled.response = Response(<<>>, <<FcSolve>>)
    /\ Len(messages) = 2
    /\ Last(messages).isAction

\* C6: when the model call is rejected the continuation calls nothing on
\* the engine and leaves it as it was, appends exactly one Turn, the
\* generic-error Turn whatever the error was, and resets loading, so that
\* the gate lets the next non-blank send through (in the panel that issued
\* the turn; the panel's state is gone if it was closed meanwhile).
C6_RejectionYieldsOneError ==
    [][handled'.status = "rejected"
         => /\ calls' = <<>>
            /\ ggbApplet' = ggbApplet
            /\ IF handled'.mounted
               THEN /\ messages' = Append(messages, ErrorTurn)
                    /\ ~loading'
                    /\ ~Rejects(<<" ", "a">>, loading')
               ELSE messages' = messages]_vars

\* a rejected call left the generic-error Turn and an idle bridge
C6_Witness ==
    /\ lastOp = "generateContentRejected"
    /\ handled.mounted
    /\ handled.error = "auth"
    /\ Len(messages) = 2
    /\ Last(messages) = ErrorTurn
    /\ ~loading

IsPrefix(p, q) == Len(p) <= Len(q) /\ SubSeq(q, 1, Len(p)) = p

\* the continuation of a fulfilled call that holds the engine ran in the step
Dispatched == handled'.status = "resolved" /\ handled'.ggb

\* C7 as stated: with the engine available the commands evalCommand
\* receives during a turn are the command lists of the turn's invocations,
\* concatenated in emission order, and every invocation with a command list
\* yields exactly one action-record Turn.
C7_DispatchIsConcatenation ==
    [][Dispatched =>
         LET lists == ListInvocations(handled'.response)
         IN /\ EvalCommands(calls') = Concat(lists)
            /\ handled'.mounted => ActionCount(Appended) = Len(lists)]_vars

\* C7 as amended: the commands evalCommand receives are that concatenation
\* cut after the first command it throws on (all of it when it throws on
\* none), and exactly the invocations before the one it throws in yield an
\* action-record Turn each, in emission order (in the panel that issued the
\* turn).
C7_DispatchIsConcatenationUntilThrow ==
    [][Dispatched =>
         LET lists == ListInvocations(handled'.response)
             records == SelectSeq(Appended, IsActionTurn)
         IN /\ EvalCommands(calls') = UpToThrow(Concat(lists))
            /\ handled'.mounted =>
                  /\ Len(records) = CompletedCount(lists)
                  /\ \A k \in DOMAIN records :
                        records[k].text =
                            IF lists[k].explanation # <<>>
                            THEN lists[k].explanation
                            ELSE FallbackExplanation]_vars

\* two batches reached the engine in order and left two action records
C7_Witness ==
    /\ CompletedMounted
    /\ handled.ggb
    /\ handled.response = Response(<<>>, <<FcBatch, FcSolve>>)
    /\ EvalCommands(calls) = <<CmdA, CmdB, CmdSolve>>
    /\ Len(messages) = 3
    /\ messages[2].isAction
    /\ messages[3].isAction

\* C8 as stated: when the engine fails on a dispatched command, by
\* returning the failure value or by throwing, every later command of the
\* response is dispatched all the same.
C8_BestEffortDispatch ==
    [][Dispatched =>
         LET all == Concat(ListInvocations(handled'.response))
             evals == EvalCommands(calls')
         IN /\ IsPrefix(evals, all)
            /\ \A i \in DOMAIN evals :
                  EvalFails(evals[i]) \/ EvalThrows(evals[i]) => evals = all]_vars

\* C8 as amended: after a command for which evalCommand returns the failure
\* value the next command of the response is dispatched all the same; a
\* command evalCommand throws on is the last one dispatched, and the turn
\* then ends with the generic-error Turn.
C8_BestEffortUnlessThrow ==
    [][Dispatched =>
         LET all == Concat(ListInvocations(handled'.response))
             evals == EvalCommands(calls')
         IN /\ IsPrefix(evals, all)
            /\ \A i \in DOMAIN evals :
                  /\ (EvalFails(evals[i]) /\ i < Len(all)) => i < Len(evals)
                  /\ EvalThrows(evals[i]) =>
                        /\ i = Len(evals)
                        /\ handled'.mounted =>
                              /\ Appended # <<>>
                              /\ Last(Appended) = ErrorTurn]_vars

\* the engine refused the first command of a batch and received the second
C8_Witness ==
    /\ CompletedMounted
    /\ handled.ggb
    /\ handled.response = Response(<<>>, <<FcFails>>)
    /\ EvalCommands(calls) = <<CmdBad, CmdA>>
    /\ Last(messages).isAction

HasArray(fc) == fc.isArray

\* C9: an invocation whose commands field is no array is ignored: the step
\* is the step the response without such invocations would have made (same
\* engine calls, same engine, same Turns appended), and a response with no
\* other invocation makes no engine call and appends no action record and
\* no error Turn, only its text if it has one.
C9_NonArrayIgnored ==
    [][handled'.status = "resolved" =>
         LET response == handled'.response
             kept == SelectSeq(response.functionCalls, HasArray)
             expected == HandleResponse(ggbApplet, Response(response.text, kept),
                                        handled'.ggb, handled'.mode)
         IN /\ calls' = expected.calls
            /\ ggbApplet' = expected.engine
            /\ handled'.mounted => Appended = expected.turns
            /\ ~handled'.mounted => messages' = messages
            /\ kept = <<>> =>
                  /\ calls' = <<>>
                  /\ ggbApplet' = ggbApplet
                  /\ handled'.mounted =>
                        Appended = IF response.text # <<>>
                                   THEN <<TextTurn(response.text)>> ELSE <<>>]_vars

\* a response with a malformed invocation, a well-formed one and text was
\* handled: one batch dispatched, one action record, the text
C9_Witness ==
    /\ CompletedMounted
    /\ handled.ggb
    /\ handled.response = Response(<<"t">>, <<FcNotArray, FcBatch>>)
    /\ EvalCommands(calls) = <<CmdA, CmdB>>
    /\ Len(messages) = 3
    /\ messages[2].isAction
    /\ messages[3] = TextTurn(<<"t">>)

HasCommands(fc) == ~(fc.name = ExecTool /\ fc.isArray /\ fc.commands = <<>>)

\* C10: an invocation whose command list is empty is ignored: the step is
\* the step the response without such invocations would have made (no call
\* on the engine adapter, no action record, no error Turn for it).
C10_EmptyListIgnored ==
    [][handled'.status = "resolved" =>
         LET response == handled'.response
             kept == SelectSeq(response.functionCalls, HasCommands)
             expected == HandleResponse(ggbApplet, Response(response.text, kept),
                                        handled'.ggb, handled'.mode)
         IN /\ calls' = expected.calls
            /\ ggbApplet' = expected.engine
            /\ handled'.mounted => Appended = expected.turns]_vars

-----------------------------------------------------------------------------
(* Text-only responses, the transcript, the absent engine *)

\* the continuation of a fulfilled call ran in the step, and the response
\* had no invocations and some text
TextOnly ==
    /\ handled'.status = "resolved"
    /\ handled'.response.functionCalls = <<>>
    /\ handled'.response.text # <<>>

\* C11: for a response with no invocations and non-empty text the
\* continuation makes no call on the engine and leaves it as it was, and
\* appends exactly one Turn right after the turn's user Turn: an assistant
\* Turn that is no action record and whose text is the response text (in
\* the transcript of the panel that issued the turn).
C11_TextOnlyYieldsOneTurn ==
    [][TextOnly =>
         /\ calls' = <<>>
         /\ ggbApplet' = ggbApplet
         /\ handled'.mounted =>
               /\ messages # <<>>
               /\ Last(messages).role = "user"
               /\ Len(messages') = Len(messages) + 1
               /\ SubSeq(messages', 1, Len(messages)) = messages
               /\ Last(messages').role = "ai"
               /\ ~Last(messages').isAction
               /\ Last(messages').text = handled'.response.text
               /\ Last(messages').results = <<>>]_vars

\* a text-only response was handled with the engine loaded: the transcript
\* is the user Turn and the text, and the engine was not called
C11_Witness ==
    /\ CompletedMounted
    /\ handled.ggb
    /\ ggbApplet.loaded
    /\ handled.response = Response(<<"t">>, <<>>)
    /\ messages = <<UserTurn(<<" ", "a">>), TextTurn(<<"t">>)>>
    /\ calls = <<>>

\* C12: the transcript is append-only: in every step (accepted send,
\* rejected send, continuation of a fulfilled or rejected call, language or
\* mode switch, panel close or reopen) the transcript before the step is a
\* prefix of the transcript after it.
C12_TranscriptAppendOnly == [][IsPrefix(messages, messages')]_vars

\* C13: when the engine adapter is absent at send time the turn does not
\* fail for it: the model call is issued without a call on the engine and
\* with the "no objects" marker as the snapshot, and without an error Turn;
\* when the call is fulfilled every invocation is skipped (no call on the
\* engine, even if it has loaded meanwhile, and no action record), no error
\* Turn is appended, the text of the response, if any, is appended as the
\* only Turn, and the bridge is idle again (in the panel that issued the
\* turn).
C13_AbsentEngineDegrades ==
    /\ [][(lastOp' = "issueRequest" /\ ~ggbApplet.loaded)
            => /\ calls' = <<>>
               /\ prompt' # NoPrompt =>
                     /\ prompt'.objects = NoObjectsMarker
                     /\ messages' = messages
                     /\ ~Last(requests').ggb]_vars
    /\ [][(handled'.status = "resolved" /\ ~handled'.ggb)
            => /\ calls' = <<>>
               /\ ggbApplet' = ggbApplet
               /\ handled'.mounted =>
                     /\ Appended = IF handled'.response.text # <<>>
                                    THEN <<TextTurn(handled'.response.text)>>
                                    ELSE <<>>
                     /\ SubSeq(messages', 1, Len(messages)) = messages
                     /\ ~loading']_vars

\* a turn sent before the engine had loaded got a batch and text back after
\* it had loaded: only the text is in the transcript, nothing was dispatched
C13_Witness ==
    /\ CompletedMounted
    /\ ~handled.ggb
    /\ ggbApplet.loaded
    /\ handled.response = Response(<<"t">>, <<FcBatch>>)
    /\ messages = <<UserTurn(<<" ", "a">>), TextTurn(<<"t">>)>>
    /\ calls = <<>>
    /\ ~loading

IsErrorTurn(turn) == turn = ErrorTurn

ErrorCount(turns) == Len(SelectSeq(turns, IsErrorTurn))

\* a step of handleChatSend after the gate: the rest of its synchronous
\* part, or its continuation in the panel that issued the turn
TurnStep ==
    \/ lastOp' = "issueRequest"
    \/ Resumed /\ handled'.mounted

\* C14 as stated: a step of a turn that appends the generic-error Turn
\* dispatches no command to the engine and appends no action record.
C14_ErrorExcludesDispatch ==
    [][(TurnStep /\ ErrorCount(Appended) > 0)
         => /\ EvalCommands(calls') = <<>>
            /\ ActionCount(Appended) = 0]_vars

\* C14 as amended: a turn appends at most one generic-error Turn, as its
\* last Turn.  When the failure came before the response (the client or the
\* snapshot threw, or the model call was rejected) the turn dispatched no
\* command and appended no action record.  A fulfilled call ends with the
\* error Turn exactly when the engine threw on a dispatched command; then
\* the commands that reached the engine are those up to and including that
\* command and the action records are those of the invocations completed
\* before it.  Without an error Turn every command that reached the engine
\* belongs to an invocation that has its action record.
C14_ErrorAfterPartialDispatch ==
    /\ [][TurnStep =>
             /\ ErrorCount(Appended) <= 1
             /\ ErrorCount(Appended) = 1 => Last(Appended) = ErrorTurn]_vars
    /\ [][(lastOp' = "issueRequest" /\ ErrorCount(Appended) = 1)
            => /\ EvalCommands(calls') = <<>>
               /\ Appended = <<ErrorTurn>>
               /\ requests' = requests]_vars
    /\ [][(Resumed /\ handled'.mounted /\ handled'.status = "rejected")
            => /\ calls' = <<>>
               /\ Appended = <<ErrorTurn>>]_vars
    /\ [][(Resumed /\ handled'.mounted /\ handled'.status = "resolved") =>
             LET lists == IF handled'.ggb
                          THEN ListInvocations(handled'.response) ELSE <<>>
                 all == Concat(lists)
             IN /\ ErrorCount(Appended) = 1
                      <=> \E k \in DOMAIN all : EvalThrows(all[k])
                /\ EvalCommands(calls') = UpToThrow(all)
                /\ ActionCount(Appended) = CompletedCount(lists)
                /\ ErrorCount(Appended) = 0 =>
                      /\ EvalCommands(calls') = all
                      /\ ActionCount(Appended) = Len(lists)]_vars

\* a turn dispatched one batch, left its action record, then the engine
\* threw in the second batch: the record and the error Turn are both there
C14_Witness ==
    /\ CompletedMounted
    /\ handled.ggb
    /\ handled.response = Response(<<>>, <<FcBatch, FcThrows>>)
    /\ EvalCommands(calls) = <<CmdA, CmdB, CmdA, CmdBoom>>
    /\ Len(messages) = 3
    /\ messages[2].isAction
    /\ messages[3] = ErrorTurn

\* C15: whenever the bridge is idle and the engine is loaded, the active
\* perspective of the engine is the one of the mode selected in the
\* presentation layer, also after a turn that was awaiting the model while
\* the mode was switched has dispatched its batch.
C15_PerspectiveFollowsMode ==
    (~loading /\ pc = "ready" /\ ggbApplet.loaded)
        => ggbApplet.perspective = PERSPECTIVES[appType]

\* C15, the case of the turn alone: a continuation that leaves the bridge
\* idle leaves the engine in the perspective of the selected mode.
C15_DispatchKeepsSelectedMode ==
    [][(Resumed /\ ~loading' /\ ggbApplet.loaded
           /\ ggbApplet.perspective = PERSPECTIVES[appType])
         => ggbApplet'.perspective = PERSPECTIVES[appType']]_vars

====
